---------------------------- MODULE Spec2Model ----------------------------
(***************************************************************************)
(* A model of two control-flow-graph rewriting passes of the decompiler:   *)
(*   - CrossJumpReverter      (cross_jump_reverter.py)                     *)
(*   - LoweredSwitchSimplifier (new_lowered_switch_simplifier.py)          *)
(* The structuring algorithm (RegionIdentifier, RecursiveStructurer,       *)
(* RegionSimplifier, GotoManager) is external to both files: it is the     *)
(* "Structuring Oracle" and is modelled as a nondeterministic answer.      *)
(***************************************************************************)
EXTENDS Integers, Sequences, FiniteSets, TLC

(***************************************************************************)
(* Bounds of the model.                                                    *)
(***************************************************************************)
\* number of Block addresses of an input graph of the Cross-Jump Reverter
NumAddrs == 4
\* largest number of edges of an input graph of the Cross-Jump Reverter
MaxEdges == 3
\* largest number of gotos the Oracle reports in one call
MaxGotos == 2
\* largest max_level the Cross-Jump Reverter is run with
MaxLevel == 3

(***************************************************************************)
(* Program constants.                                                      *)
(***************************************************************************)
\* Block.idx of a Block that is no duplicate (None in the source)
NoIdx == -1
\* node_idx_start, the first disambiguating index the Reverter hands out
node_idx_start == 0

(***************************************************************************)
(* Optional values: None is the empty sequence, a value v is <<v>>.        *)
(***************************************************************************)
None == << >>

Some(v) == <<v>>

(***************************************************************************)
(* Blocks and graphs.  A Block is identified, as ailment.Block is, by its  *)
(* address, its index and its statements; the statements are abstracted to *)
(* a kind st and a number tag:                                             *)
(*   st = "orig"   the Block of the input graph (tag 0)                    *)
(*   st = "switch" a head whose last statement is the placeholder of the   *)
(*                 chain number tag                                        *)
(*   st = "trim"   a trimmed copy ending in a Jump to address tag          *)
(*   st = "last"   a copy of an input Block with its last statement only   *)
(*   st = "jump"   a copy of a trimmed copy with its Jump only             *)
(*   st = "stripped"  a head after its placeholder was removed             *)
(* A graph is a networkx.DiGraph: its nodes in insertion order and its     *)
(* edges.                                                                  *)
(***************************************************************************)
Blk(a, i) == [addr |-> a, idx |-> i, st |-> "orig", tag |-> 0]

SeqToSet(s) == {s[i] : i \in DOMAIN s}

Nodes(g) == SeqToSet(g.nodes)

HasNode(g, n) == n \in Nodes(g)

Succ(g, n) == {e[2] : e \in {x \in g.edges : x[1] = n}}

Pred(g, n) == {e[1] : e \in {x \in g.edges : x[2] = n}}

OutDegree(g, n) == Cardinality(Succ(g, n))

InDegree(g, n) == Cardinality(Pred(g, n))

\* position of node n in the insertion order of g (0 when absent)
Rank(g, n) == IF HasNode(g, n) THEN CHOOSE i \in DOMAIN g.nodes : g.nodes[i] = n ELSE 0

AddNode(g, n) == IF HasNode(g, n) THEN g ELSE [g EXCEPT !.nodes = Append(@, n)]

AddEdge(g, u, v) == [AddNode(AddNode(g, u), v) EXCEPT !.edges = @ \cup {<<u, v>>}]

RemoveEdge(g, u, v) == [g EXCEPT !.edges = @ \ {<<u, v>>}]

RemoveNode(g, n) ==
  [nodes |-> SelectSeq(g.nodes, LAMBDA x : x # n),
   edges |-> {e \in g.edges : e[1] # n /\ e[2] # n}]

\* the elements of the set S of nodes of g, in g's insertion order
RECURSIVE InOrder(_, _)
InOrder(g, S) ==
  IF S = {} THEN << >>
  ELSE LET n == CHOOSE x \in S : \A y \in S : Rank(g, x) <= Rank(g, y)
       IN  <<n>> \o InOrder(g, S \ {n})


(***************************************************************************)
(* State.  pass_name tells which pass the behaviour runs; the variables of *)
(* the other pass keep their initial value.                                *)
(*   graph          the caller's graph (self._graph), never written        *)
(*   out_graph      self.out_graph, the replacement graph (None: no change)*)
(*   goto_manager   self.goto_manager: None or the gotos of the last call  *)
(*   initial_gotos  the gotos of the first successful Oracle call          *)
(*   graph_copy, last_graph, graph_updated, node_idx, max_level            *)
(*                  the Reverter's fields and locals of the same names     *)
(*   rounds         iterations of "for _ in range(self.max_level)" begun   *)
(*   to_update      the pairs of the running round still to be processed   *)
(* History variables (not in the source, written only to state claims):    *)
(*   measured       the graph the last Oracle call was run on, None when   *)
(*                  that call failed                                       *)
(*   oracle_failed  an Oracle call of the pass has failed                  *)
(*   dup_log        the duplications of the running round: the pair, the   *)
(*                  duplicate, the successors of the goto target when its  *)
(*                  duplication started and those of the duplicate after   *)
(* LoweredSwitchSimplifier:                                                *)
(*   statements     the statements of every input Block (see PlainStmts)   *)
(*   sorted_nodes   GraphUtils.quasi_topological_sort_nodes(self._graph)   *)
(*   variablehash_to_cases  the Recognizer's answer                        *)
(*   todo           the chains the Rewriter has still to apply             *)
(*   node_to_heads  successor of a removed comparison Block -> new heads   *)
(*   switch_heads   the placeholder heads created so far with their cases  *)
(*   full_graph     the function graph restore_graph works on              *)
(*   restore_pos    the number of placeholder heads restored so far        *)
(*   restore_raised restore_graph ended in an exception                    *)
(*   walk           the worklist loop of the chain head at head_pos in     *)
(*                  sorted_nodes, when the Recognizer is taken step by step*)
(*   jump           a conditional jump on an ordering comparison, with a   *)
(*                  value x of the compared variable                       *)
(*   classified     what the Shape-C classifier returned for jump          *)
(***************************************************************************)
VARIABLES pass_name, pc, graph, out_graph, goto_manager, initial_gotos,
          graph_copy, last_graph, graph_updated, node_idx, max_level, rounds,
          to_update, measured, oracle_failed, dup_log,
          statements, sorted_nodes, variablehash_to_cases, todo, node_to_heads,
          switch_heads, full_graph, restore_pos, restore_raised, walk, head_pos,
          jump, classified

cjr_vars == <<graph_copy, last_graph, graph_updated, node_idx, max_level,
              rounds, to_update, dup_log>>

common_vars == <<pass_name, pc, graph, out_graph, goto_manager, initial_gotos,
                 measured, oracle_failed>>

\* the state of the LoweredSwitchSimplifier alone
lss_vars == <<statements, sorted_nodes, variablehash_to_cases, todo,
              node_to_heads, switch_heads>>

\* the state of restore_graph and of the Recognizer taken step by step
aux_vars == <<full_graph, restore_pos, restore_raised, walk, head_pos, jump,
              classified>>

vars == <<common_vars, cjr_vars, lss_vars, aux_vars>>

(***************************************************************************)
(* The Structuring Oracle.  A Goto is attributed to the Block that holds   *)
(* it and carries the address it jumps to; an unstructured jump follows an *)
(* edge of the graph.  The Oracle fails or reports a set of gotos.         *)
(***************************************************************************)
Goto(n, a) == [src |-> n, target_addr |-> a]

PossibleGotos(g) == {Goto(e[1], e[2].addr) : e \in g.edges}

RECURSIVE SubsetsUpTo(_, _)
SubsetsUpTo(S, k) ==
  IF k = 0 THEN {{}}
  ELSE LET smaller == SubsetsUpTo(S, k - 1)
       IN  smaller \cup {s \cup {x} : s \in smaller, x \in S}

\* the answers of a successful Oracle call on g
OracleGotos(g) == SubsetsUpTo(PossibleGotos(g), MaxGotos)

\* GotoManager.gotos_in_block
gotos_in_block(gotos, node) == {x \in gotos : x.src = node}

(***************************************************************************)
(* CrossJumpReverter._analyze_core, first loop: the pairs                  *)
(* (goto-bearing block, goto target) of the round, in node order.          *)
(***************************************************************************)
\* the successor of node the goto points to (None when no successor matches)
GotoTarget(g, node, goto) ==
  LET m == {s \in Succ(g, node) : s.addr = goto.target_addr}
  IN  IF m = {} THEN None
      ELSE Some(CHOOSE s \in m : \A y \in m : Rank(g, s) <= Rank(g, y))

Qualifies(g, gotos, node) ==
  LET gs == gotos_in_block(gotos, node)
  IN  /\ Cardinality(gs) = 1
      /\ LET t == GotoTarget(g, node, CHOOSE x \in gs : TRUE)
         IN  /\ t # None
             /\ OutDegree(g, t[1]) = 1

RECURSIVE CollectFrom(_, _, _)
CollectFrom(g, gotos, ns) ==
  IF ns = << >> THEN << >>
  ELSE LET node == Head(ns)
           rest == CollectFrom(g, gotos, Tail(ns))
       IN  IF Qualifies(g, gotos, node)
           THEN <<<<node, GotoTarget(g, node,
                       CHOOSE x \in gotos_in_block(gotos, node) : TRUE)[1]>>>> \o rest
           ELSE rest

Collect(g, gotos) == CollectFrom(g, gotos, g.nodes)

(***************************************************************************)
(* CrossJumpReverter._analyze_core, second loop, one pair.                 *)
(***************************************************************************)
\* cp = copy.deepcopy(goto_node); cp.idx = next(self.node_idx)
Duplicate(goto_node, i) == [goto_node EXCEPT !.idx = i]

\* graph.remove_edge raises when the edge (or an endpoint) is missing
CanRemoveEdge(g, target_node, goto_node) == <<target_node, goto_node>> \in g.edges

\* the graph after remove_edge(target_node, goto_node); add_edge(target_node, cp)
Rewired(g, target_node, goto_node, cp) ==
  AddEdge(RemoveEdge(g, target_node, goto_node), target_node, cp)

\* suc = list(graph.successors(goto_node))[0], read after the rewiring
SucAfterRewire(g1, goto_node) ==
  CHOOSE s \in Succ(g1, goto_node) : \A y \in Succ(g1, goto_node) : Rank(g1, s) <= Rank(g1, y)

\* mutant of KillDrained: the drained original is never removed
KillDrained_Never(g, goto_node) == g

\* "kill the original if we made enough copies to drain in-degree"
KillDrained(g, goto_node) ==
  IF InDegree(g, goto_node) = 0 THEN RemoveNode(g, goto_node) ELSE g

\* the whole body of the loop for one pair, when nothing raises
ApplyPair(g, target_node, goto_node, i) ==
  LET cp == Duplicate(goto_node, i)
      g1 == Rewired(g, target_node, goto_node, cp)
      g2 == AddEdge(g1, cp, SucAfterRewire(g1, goto_node))
  IN  KillDrained(g2, goto_node)

\* the pair raises: the edge is missing, or the goto target has no successor
PairRaises(g, target_node, goto_node) ==
  \/ ~CanRemoveEdge(g, target_node, goto_node)
  \/ Succ(Rewired(g, target_node, goto_node, Duplicate(goto_node, 0)), goto_node) = {}


(***************************************************************************)
(* The input graphs of the Cross-Jump Reverter: NumAddrs Blocks, none a    *)
(* duplicate, inserted by address, and at most MaxEdges edges.             *)
(***************************************************************************)
Addrs == 1 .. NumAddrs

InputNodes == [a \in Addrs |-> Blk(a, NoIdx)]

InputGraphs ==
  {[nodes |-> InputNodes, edges |-> E] :
      E \in SubsetsUpTo(SeqToSet(InputNodes) \X SeqToSet(InputNodes), MaxEdges)}

(***************************************************************************)
(* CrossJumpReverter.__init__: the state when _analyze starts.             *)
(***************************************************************************)
CJR_Init ==
  /\ pass_name = "CrossJumpReverter"
  /\ pc = "loop"
  /\ graph \in InputGraphs
  /\ out_graph = None
  /\ goto_manager = None
  /\ initial_gotos = None
  \* self.graph_copy = to_ail_supergraph(networkx.DiGraph(self._graph))
  /\ graph_copy = Some(graph)
  /\ last_graph = None
  /\ graph_updated = FALSE
  /\ node_idx = node_idx_start
  /\ max_level \in 1 .. MaxLevel
  /\ rounds = 0
  /\ to_update = << >>
  /\ measured = None
  /\ oracle_failed = FALSE
  /\ dup_log = {}
  /\ statements = << >>
  /\ sorted_nodes = << >>
  /\ variablehash_to_cases = << >>
  /\ todo = << >>
  /\ node_to_heads = << >>
  /\ switch_heads = << >>
  /\ full_graph = None
  /\ restore_pos = 0
  /\ restore_raised = FALSE
  /\ walk = None
  /\ head_pos = 0
  /\ jump = None
  /\ classified = None

(***************************************************************************)
(* One iteration of the round loop up to the call of _analyze_core         *)
(* (_analyze lines 90-102 with _structure_graph), one action per answer of *)
(* the Oracle.                                                             *)
(***************************************************************************)
\* if self.initial_gotos is None: self.initial_gotos = self.goto_manager.gotos
FirstGotos(gotos) == IF initial_gotos = None THEN Some(gotos) ELSE initial_gotos

\* _structure_graph returns (False, False): roll back and leave the loop
StructureFails ==
  /\ pass_name = "CrossJumpReverter" /\ pc = "loop" /\ rounds < max_level
  /\ goto_manager' = None
  /\ graph_copy' = last_graph
  /\ rounds' = rounds + 1
  /\ pc' = "emit"
  /\ measured' = None
  /\ oracle_failed' = TRUE
  /\ UNCHANGED lss_vars
  /\ UNCHANGED <<pass_name, graph, out_graph, initial_gotos, last_graph,
                 graph_updated, node_idx, max_level, to_update, dup_log>>
  /\ UNCHANGED aux_vars

\* _structure_graph returns (True, False): no gotos are left
StructureNoGotos ==
  /\ pass_name = "CrossJumpReverter" /\ pc = "loop" /\ rounds < max_level
  /\ goto_manager' = Some({})
  /\ initial_gotos' = FirstGotos({})
  /\ rounds' = rounds + 1
  /\ pc' = "emit"
  /\ measured' = graph_copy
  /\ UNCHANGED lss_vars
  /\ UNCHANGED <<pass_name, graph, out_graph, graph_copy, last_graph,
                 graph_updated, node_idx, max_level, to_update, oracle_failed,
                 dup_log>>
  /\ UNCHANGED aux_vars

\* _structure_graph returns (True, True): snapshot the graph and collect the
\* pairs of the round; with no pair _analyze_core returns False
StructureGotos ==
  /\ pass_name = "CrossJumpReverter" /\ pc = "loop" /\ rounds < max_level
  /\ \E gotos \in OracleGotos(graph_copy[1]) \ {{}} :
        /\ goto_manager' = Some(gotos)
        /\ initial_gotos' = FirstGotos(gotos)
        /\ to_update' = Collect(graph_copy[1], gotos)
        /\ pc' = IF Collect(graph_copy[1], gotos) = << >> THEN "emit" ELSE "core"
  /\ last_graph' = graph_copy
  /\ rounds' = rounds + 1
  /\ measured' = graph_copy
  /\ dup_log' = {}
  /\ UNCHANGED lss_vars
  /\ UNCHANGED <<pass_name, graph, out_graph, graph_copy, graph_updated,
                 node_idx, max_level, oracle_failed>>
  /\ UNCHANGED aux_vars

(***************************************************************************)
(* _analyze_core, second loop: one pair per step.                          *)
(***************************************************************************)
CoreStep ==
  /\ pass_name = "CrossJumpReverter" /\ pc = "core" /\ to_update # << >>
  /\ LET target_node == Head(to_update)[1]
         goto_node == Head(to_update)[2]
         g == graph_copy[1]
     IN  /\ ~PairRaises(g, target_node, goto_node)
         /\ graph_copy' = Some(ApplyPair(g, target_node, goto_node, node_idx))
         /\ dup_log' = dup_log \cup
               {[target_node |-> target_node, goto_node |-> goto_node,
                 cp |-> Duplicate(goto_node, node_idx),
                 before |-> Succ(g, goto_node),
                 after |-> Succ(ApplyPair(g, target_node, goto_node, node_idx),
                                Duplicate(goto_node, node_idx))]}
  /\ node_idx' = node_idx + 1
  /\ to_update' = Tail(to_update)
  /\ pc' = IF Tail(to_update) = << >> THEN "core_done" ELSE "core"
  /\ UNCHANGED lss_vars
  /\ UNCHANGED <<pass_name, graph, out_graph, goto_manager, initial_gotos,
                 last_graph, graph_updated, max_level, rounds, measured,
                 oracle_failed>>
  /\ UNCHANGED aux_vars

\* networkx raises (NetworkXError, IndexError): the exception leaves _analyze
CoreRaises ==
  /\ pass_name = "CrossJumpReverter" /\ pc = "core" /\ to_update # << >>
  /\ PairRaises(graph_copy[1], Head(to_update)[1], Head(to_update)[2])
  /\ node_idx' = node_idx + 1
  /\ pc' = "raised"
  /\ UNCHANGED lss_vars
  /\ UNCHANGED <<pass_name, graph, out_graph, goto_manager, initial_gotos,
                 graph_copy, last_graph, graph_updated, max_level, rounds,
                 to_update, measured, oracle_failed, dup_log>>
  /\ UNCHANGED aux_vars

\* r is True: graph_updated = True, and the next iteration if one is left
RoundEnd ==
  /\ pass_name = "CrossJumpReverter" /\ pc = "core_done"
  /\ graph_updated' = TRUE
  /\ pc' = IF rounds < max_level THEN "loop" ELSE "emit"
  /\ UNCHANGED lss_vars
  /\ UNCHANGED <<pass_name, graph, out_graph, goto_manager, initial_gotos,
                 graph_copy, last_graph, node_idx, max_level, rounds,
                 to_update, measured, oracle_failed, dup_log>>
  /\ UNCHANGED aux_vars

(***************************************************************************)
(* "the output graph" (_analyze lines 107-110).                            *)
(***************************************************************************)
\* mutant of EmitCondition: the goto counts are not compared
EmitCondition_NoCount == graph_updated /\ graph_copy # None /\ goto_manager # None

EmitCondition ==
  /\ graph_updated /\ graph_copy # None
  /\ goto_manager # None
  /\ ~(Cardinality(initial_gotos[1]) < Cardinality(goto_manager[1]))

Emit ==
  /\ pass_name = "CrossJumpReverter" /\ pc = "emit"
  /\ out_graph' = IF EmitCondition THEN graph_copy ELSE out_graph
  /\ pc' = "done"
  /\ UNCHANGED lss_vars
  /\ UNCHANGED <<pass_name, graph, goto_manager, initial_gotos, graph_copy,
                 last_graph, graph_updated, node_idx, max_level, rounds,
                 to_update, measured, oracle_failed, dup_log>>
  /\ UNCHANGED aux_vars

CJR_Next ==
  \/ StructureFails
  \/ StructureNoGotos
  \/ StructureGotos
  \/ CoreStep
  \/ CoreRaises
  \/ RoundEnd
  \/ Emit

SpecCJR == CJR_Init /\ [][CJR_Next]_vars


(***************************************************************************)
(* LoweredSwitchSimplifier: the statements of a Block, as far as the       *)
(* classifiers and the Rewriter read them.                                 *)
(*   pre   the non-label statements before the last one: "none", "assign"  *)
(*         (assignments only) or "other"                                   *)
(*   kind  "cjmp": the last statement is a ConditionalJump with constant   *)
(*         targets on BinaryOp(expr, Const); "other": anything else        *)
(*   var   StableVarExprHasher(expr).hash                                  *)
(***************************************************************************)
\* next_addr / target of no Block (None in the source)
NoAddr == 0

\* variable_hash of no Case (last_varhash = None)
NoHash == 0

PlainStmts ==
  [pre |-> "other", kind |-> "other", op |-> "none", var |-> NoHash, value |-> 0,
   true_target |-> NoAddr, false_target |-> NoAddr]

CmpStmts(pre, op, var, value, tt, ft) ==
  [pre |-> pre, kind |-> "cjmp", op |-> op, var |-> var, value |-> value,
   true_target |-> tt, false_target |-> ft]

\* the tuple (variable_hash, op, value, target, next_node_addr) of a classifier
CmpTuple(h, o, v, t, n) ==
  [variable_hash |-> h, op |-> o, value |-> v, target |-> t, next_addr |-> n]

\* type a: the comparison is the last but not the only non-label statement
find_switch_variable_comparison_type_a(b) ==
  IF b.kind = "cjmp" /\ b.pre # "none"
  THEN IF b.op = "CmpEQ"
       THEN Some(CmpTuple(b.var, "eq", b.value, b.true_target, b.false_target))
       ELSE IF b.op = "CmpNE"
       THEN Some(CmpTuple(b.var, "eq", b.value, b.false_target, b.true_target))
       ELSE None
  ELSE None

\* type b: the comparison is the only non-label statement
find_switch_variable_comparison_type_b(b) ==
  IF b.kind = "cjmp" /\ b.pre = "none"
  THEN IF b.op = "CmpEQ"
       THEN Some(CmpTuple(b.var, "eq", b.value, b.true_target, b.false_target))
       ELSE IF b.op = "CmpNE"
       THEN Some(CmpTuple(b.var, "eq", b.value, b.false_target, b.true_target))
       ELSE None
  ELSE None

\* type c: an ordering comparison is the only non-label statement
find_switch_variable_comparison_type_c(b) ==
  IF b.kind = "cjmp" /\ b.pre = "none" /\ b.true_target # b.false_target
  THEN CASE b.op = "CmpGT" ->
              Some(CmpTuple(b.var, "gt", b.value, b.true_target, b.false_target))
         [] b.op = "CmpGE" ->
              Some(CmpTuple(b.var, "gt", b.value + 1, b.true_target, b.false_target))
         [] b.op = "CmpLT" ->
              Some(CmpTuple(b.var, "gt", b.value - 1, b.false_target, b.true_target))
         [] b.op = "CmpLE" ->
              Some(CmpTuple(b.var, "gt", b.value, b.false_target, b.true_target))
         [] OTHER -> None
  ELSE None

\* the entry of variable_comparisons for a Block with statements b (None when
\* no classifier accepts it): ("a" | "b" | "c",) + r
Classify(b) ==
  LET ra == find_switch_variable_comparison_type_a(b)
      rb == find_switch_variable_comparison_type_b(b)
      rc == find_switch_variable_comparison_type_c(b)
  IN  IF ra # None THEN Some([comp_type |-> "a", r |-> ra[1]])
      ELSE IF rb # None THEN Some([comp_type |-> "b", r |-> rb[1]])
      ELSE IF rc # None THEN Some([comp_type |-> "c", r |-> rc[1]])
      ELSE None

(***************************************************************************)
(* The Recognizer (_find_cascading_switch_variable_comparisons) over the   *)
(* graph g, the statements stm of its Blocks and the node order sorted.    *)
(***************************************************************************)
\* Case(original_node, node_type, variable_hash, expr, value, target,
\* next_addr); value "default" is default = TRUE, node_type None is "none"
Case(n, ty, h, v, t, nx) ==
  [original_node |-> n, node_type |-> ty, variable_hash |-> h, default |-> FALSE,
   value |-> v, target |-> t, next_addr |-> nx]

DefaultCase(n, h, t) ==
  [original_node |-> n, node_type |-> "none", variable_hash |-> h, default |-> TRUE,
   value |-> 0, target |-> t, next_addr |-> NoAddr]

\* node in variable_comparisons
Classified(stm, n) == n \in DOMAIN stm /\ Classify(stm[n]) # None

\* self._get_blocks(addr), in the order of the graph
get_blocks(g, a) == SelectSeq(g.nodes, LAMBDA n : n.addr = a)

\* cases_issubset(cases_0, cases_1)
cases_issubset(cases_0, cases_1) ==
  /\ Len(cases_0) <= Len(cases_1)
  /\ \A i \in 1 .. Len(cases_0) : cases_0[i] \in SeqToSet(cases_1)

\* default_case_candidates[addr] = c unless the key is there
AddCandidate(cands, c) ==
  IF \E i \in 1 .. Len(cands) : cands[i].target = c.target THEN cands
  ELSE Append(cands, c)

\* the state of the worklist loop of one head; the bounds min_ and max_ of a
\* stack entry are never read and are left out
WalkInit(head, used) ==
  [cases |-> << >>, extra_cmp_nodes |-> << >>, default_case_candidates |-> << >>,
   last_comp |-> None, stack |-> <<head>>, used_nodes |-> used,
   running |-> TRUE]

Break(w) == [w EXCEPT !.running = FALSE]

\* op == "eq", after the Case of comp was appended (lines 320-347)
EqFollow(g, stm, head, w, comp, r) ==
  LET succ_addrs == {x.addr : x \in Succ(g, comp) \ {comp}}
      others == succ_addrs \ {r.target}
      next_comp_addr == CHOOSE a \in others : \A b \in others : a <= b
      many == get_blocks(g, next_comp_addr)
      next_comp == many[1]
  IN  IF r.target \notin succ_addrs THEN w
      ELSE IF others = {} THEN Break(w)
      ELSE IF Len(many) > 1
      THEN IF ~Classified(stm, many[1])
           THEN Break([w EXCEPT
                  !.cases = Append(@, DefaultCase(comp, r.variable_hash, next_comp_addr)),
                  !.used_nodes = @ \cup {comp}])
           ELSE Break(w)
      ELSE IF Classified(stm, next_comp)
      THEN [w EXCEPT !.last_comp = Some(comp),
                     !.stack = Append(@, next_comp),
                     !.used_nodes = @ \cup {comp}]
      ELSE IF \E i \in 1 .. Len(w.default_case_candidates) :
                 w.default_case_candidates[i].target = next_comp_addr
      THEN w
      ELSE [w EXCEPT
              !.default_case_candidates =
                  Append(@, DefaultCase(comp, r.variable_hash, next_comp_addr)),
              !.used_nodes = @ \cup {comp}]

\* one iteration of "while stack" (lines 289-368)
WalkStep(g, stm, head, w0) ==
  LET comp == Head(w0.stack)
      w == [w0 EXCEPT !.stack = Tail(@)]
      c == Classify(stm[comp])[1]
      r == c.r
      last_varhash == IF w.cases = << >> THEN NoHash
                      ELSE w.cases[Len(w.cases)].variable_hash
      same_var == last_varhash = NoHash \/ last_varhash = r.variable_hash
      appended == [w EXCEPT
                     !.cases = Append(@, Case(comp, c.comp_type, r.variable_hash,
                                              r.value, r.target, r.next_addr)),
                     !.used_nodes = @ \cup {comp}]
      succ_addrs == {x.addr : x \in Succ(g, comp) \ {comp}}
      gt_comp == CHOOSE x \in Succ(g, comp) \ {comp} : x.addr = r.target
      le_comp == CHOOSE x \in Succ(g, comp) \ {comp} : x.addr = r.next_addr
  IN  IF r.op = "eq"
      THEN IF same_var
           THEN IF r.target = comp.addr THEN Break(w)
                ELSE IF comp # head /\ InDegree(g, comp) > 1 THEN Break(appended)
                ELSE EqFollow(g, stm, head, appended, comp, r)
           ELSE IF w.last_comp # None
                THEN Break([w EXCEPT !.default_case_candidates =
                              AddCandidate(@, DefaultCase(w.last_comp[1], last_varhash,
                                                          comp.addr))])
                ELSE Break(w)
      ELSE \* op == "gt"
           IF same_var /\ succ_addrs = {r.target, r.next_addr}
                       /\ Classified(stm, gt_comp) /\ Classified(stm, le_comp)
           THEN [w EXCEPT !.stack = @ \o <<gt_comp, le_comp>>,
                          !.extra_cmp_nodes = Append(@, comp),
                          !.used_nodes = @ \cup {comp}]
           ELSE Break(w)

\* the worklist loop, cut after fuel iterations
RECURSIVE Walk(_, _, _, _, _)
Walk(g, stm, head, w, fuel) ==
  IF ~w.running \/ w.stack = << >> \/ fuel = 0 THEN w
  ELSE Walk(g, stm, head, WalkStep(g, stm, head, w), fuel - 1)

\* the bound of Walk: every Block twice, which no loop over a graph without
\* a cycle of comparison Blocks reaches
WalkFuel(g) == 2 * Len(g.nodes) + 1

\* varhash_to_caselists is a sequence of [v, caselists] in the order the keys
\* were inserted; caselists is a sequence of [cases, redundant_nodes]
KeyIndex(v2c, v) ==
  IF \E i \in 1 .. Len(v2c) : v2c[i].v = v
  THEN CHOOSE i \in 1 .. Len(v2c) : v2c[i].v = v
  ELSE 0

\* list(set(existing_redundant_nodes + extra_cmp_nodes))
MergeNodes(g, a, b) == InOrder(g, SeqToSet(a) \cup SeqToSet(b))

\* mutant of StoreInLists: every chain is appended
StoreInLists_AlwaysAppend(g, lists, cases, extra, idx) ==
  Append(lists, [cases |-> cases, redundant_nodes |-> extra])

\* lines 374-382 on the chains of one variable: the first existing chain that
\* is a subset of cases is replaced, a superset stops the loop, else append
RECURSIVE StoreInLists(_, _, _, _, _)
StoreInLists(g, lists, cases, extra, idx) ==
  IF idx > Len(lists) THEN Append(lists, [cases |-> cases, redundant_nodes |-> extra])
  ELSE IF cases_issubset(lists[idx].cases, cases)
  THEN [lists EXCEPT ![idx] =
          [cases |-> cases,
           redundant_nodes |-> MergeNodes(g, lists[idx].redundant_nodes, extra)]]
  ELSE IF cases_issubset(cases, lists[idx].cases) THEN lists
  ELSE StoreInLists(g, lists, cases, extra, idx + 1)

\* lines 370-382: the chain of a finished walk is kept when it has a Case and
\* at most one default candidate
StoreChain(g, v2c, w) ==
  IF w.cases = << >> \/ Len(w.default_case_candidates) > 1 THEN v2c
  ELSE LET cases == IF w.default_case_candidates = << >> THEN w.cases
                    ELSE Append(w.cases, w.default_case_candidates[1])
           v == cases[Len(cases)].variable_hash
           k == KeyIndex(v2c, v)
       IN  IF k = 0
           THEN Append(v2c, [v |-> v,
                             caselists |-> StoreInLists(g, << >>, cases,
                                                        w.extra_cmp_nodes, 1)])
           ELSE [v2c EXCEPT ![k].caselists =
                    StoreInLists(g, @, cases, w.extra_cmp_nodes, 1)]

\* "for head in variable_comparisons" (lines 279-382) from position i of the
\* node order
RECURSIVE AssembleFrom(_, _, _, _, _, _)
AssembleFrom(g, stm, sorted, i, used, v2c) ==
  IF i > Len(sorted) THEN v2c
  ELSE IF ~Classified(stm, sorted[i]) \/ sorted[i] \in used
  THEN AssembleFrom(g, stm, sorted, i + 1, used, v2c)
  ELSE LET w == Walk(g, stm, sorted[i], WalkInit(sorted[i], used), WalkFuel(g))
       IN  AssembleFrom(g, stm, sorted, i + 1, w.used_nodes, StoreChain(g, v2c, w))

\* filter: there should be at least two non-default cases
EnoughCases(cases) ==
  Cardinality({i \in 1 .. Len(cases) : ~cases[i].default}) >= 2

\* filter: type-a nodes after the first case node can only have assignments
OnlyAssignments(stm, cases) ==
  \A i \in 2 .. Len(cases) :
     (~cases[i].default /\ cases[i].node_type = "a")
        => stm[cases[i].original_node].pre # "other"

\* the test of line 411 on a predecessor of the target of a Case
CountedPred(pred, case) == pred.addr = case.target

\* filter: each case is only reachable from a case node (lines 399-415)
OnlyFromCases(g, cases) ==
  LET all_case_nodes == {cases[i].original_node : i \in 1 .. Len(cases)}
  IN  \A i \in 1 .. Len(cases) :
        LET case == cases[i]
            target_nodes == {x \in Succ(g, case.original_node) : x.addr = case.target}
        IN  /\ Cardinality(target_nodes) = 1
            /\ \A target_node \in target_nodes :
                 {pred \in Pred(g, target_node) : CountedPred(pred, case)}
                    \subseteq all_case_nodes

KeepChain(g, stm, item) ==
  /\ EnoughCases(item.cases)
  /\ OnlyAssignments(stm, item.cases)
  /\ OnlyFromCases(g, item.cases)

\* lines 384-420: every key stays, with the chains that pass the filters
FilterChains(g, stm, v2c) ==
  [k \in 1 .. Len(v2c) |->
     [v |-> v2c[k].v,
      caselists |-> SelectSeq(v2c[k].caselists, LAMBDA item : KeepChain(g, stm, item))]]

find_cascading_switch_variable_comparisons(g, stm, sorted) ==
  FilterChains(g, stm, AssembleFrom(g, stm, sorted, 1, {}, << >>))

(***************************************************************************)
(* The Rewriter: one chain (lines 164-230).                                *)
(***************************************************************************)
\* original_nodes before the head is split off
CaseNodes(cases) ==
  LET nd == SelectSeq(cases, LAMBDA c : ~c.default)
  IN  [i \in 1 .. Len(nd) |-> nd[i].original_node]

\* mutant of UsedDirectly: only the first Case is referenced directly
UsedDirectly_HeadOnly(stm, cases, i) == i = 1

\* idx == 0 or all statements of the Block are Labels and ConditionalJumps
UsedDirectly(stm, cases, i) == i = 1 \/ stm[cases[i].original_node].pre = "none"

\* original_node.copy(statements = labels, assignments, Jump(case.target))
TrimmedCopy(n, target) == [n EXCEPT !.st = "trim", !.tag = target]

\* the case_addrs of the placeholder
CaseAddrs(stm, cases) ==
  [i \in 1 .. Len(cases) |->
     IF UsedDirectly(stm, cases, i)
     THEN [node |-> cases[i].original_node, default |-> cases[i].default,
           value |-> cases[i].value, target |-> cases[i].target,
           next_addr |-> cases[i].next_addr]
     ELSE [node |-> TrimmedCopy(cases[i].original_node, cases[i].target),
           default |-> cases[i].default, value |-> cases[i].value,
           target |-> cases[i].original_node.addr,
           next_addr |-> cases[i].next_addr]]

\* {nn.addr: nn for nn in graph_copy}[a]: the last Block at the address
existing_nodes_by_addr(g, a) ==
  LET at == get_blocks(g, a) IN at[Len(at)]

\* existing_nodes_by_addr[case.target] raises KeyError
MissingTarget(g, stm, cases) ==
  \E i \in 1 .. Len(cases) :
     ~UsedDirectly(stm, cases, i) /\ get_blocks(g, cases[i].target) = << >>

\* original_head.copy() with the placeholder of chain number k as its last
\* statement
NewHead(original_head, k) == [original_head EXCEPT !.st = "switch", !.tag = k]

\* OptimizationPass._update_block(old_block, new_block): the new Block takes
\* the place and the edges of the old one; nothing happens when the old Block
\* is not in the graph
update_block(g, old_block, new_block) ==
  IF ~HasNode(g, old_block) THEN g
  ELSE LET swap(x) == IF x = old_block THEN new_block ELSE x
           removed == RemoveNode(g, old_block)
       IN  [nodes |-> Append(removed.nodes, new_block),
            edges |-> {<<swap(e[1]), swap(e[2])>> : e \in g.edges}]

\* node_to_heads[succ].add(head); node_to_heads is a sequence of
\* [node, heads] in the order the keys were inserted
AddHead(n2h, succ, head) ==
  IF \E i \in 1 .. Len(n2h) : n2h[i].node = succ
  THEN [i \in 1 .. Len(n2h) |->
          IF n2h[i].node = succ THEN [n2h[i] EXCEPT !.heads = @ \cup {head}]
          ELSE n2h[i]]
  ELSE Append(n2h, [node |-> succ, heads |-> {head}])

\* lines 218-221 for the successors succs of one removed comparison Block
RECURSIVE LinkSuccessors(_, _, _, _)
LinkSuccessors(st, new_head, succs, original_nodes) ==
  IF succs = << >> THEN st
  ELSE LET succ == Head(succs)
           linked == IF succ \in SeqToSet(original_nodes) THEN st
                     ELSE [st EXCEPT !.g = AddEdge(@, new_head, succ),
                                     !.n2h = AddHead(@, succ, new_head)]
       IN  LinkSuccessors(linked, new_head, Tail(succs), original_nodes)

\* lines 216-222: the head inherits the successors of each later comparison
\* Block, which is removed; networkx raises for a Block that has gone
RECURSIVE MergeIntoHead(_, _, _, _)
MergeIntoHead(st, new_head, rest, original_nodes) ==
  IF rest = << >> \/ st.raised THEN st
  ELSE LET onode == Head(rest)
           linked == LinkSuccessors(st, new_head, InOrder(st.g, Succ(st.g, onode)),
                                    original_nodes)
       IN  IF ~HasNode(st.g, onode) THEN [st EXCEPT !.raised = TRUE]
           ELSE MergeIntoHead([linked EXCEPT !.g = RemoveNode(@, onode)],
                              new_head, Tail(rest), original_nodes)

\* lines 223-224: the range-split Blocks are removed
RECURSIVE RemoveRedundant(_, _)
RemoveRedundant(st, redundant_nodes) ==
  IF redundant_nodes = << >> \/ st.raised THEN st
  ELSE IF ~HasNode(st.g, Head(redundant_nodes)) THEN [st EXCEPT !.raised = TRUE]
  ELSE RemoveRedundant([st EXCEPT !.g = RemoveNode(@, Head(redundant_nodes))],
                       Tail(redundant_nodes))

\* lines 226-230: head -> trimmed copy -> the Block that was at case.target
RECURSIVE ApplyDelayed(_, _, _, _, _, _)
ApplyDelayed(g, before, stm, cases, new_head, i) ==
  IF i > Len(cases) THEN g
  ELSE IF UsedDirectly(stm, cases, i)
  THEN ApplyDelayed(g, before, stm, cases, new_head, i + 1)
  ELSE LET cp == TrimmedCopy(cases[i].original_node, cases[i].target)
           target_node == existing_nodes_by_addr(before, cases[i].target)
       IN  ApplyDelayed(AddEdge(AddEdge(g, new_head, cp), cp, target_node),
                        before, stm, cases, new_head, i + 1)

\* the sanity check of line 211
HeadSwallowed(g, original_nodes) ==
  \E i \in 1 .. Len(original_nodes) : ~HasNode(g, original_nodes[i])

\* the body of the loop for chain number k on graph g: the new graph and
\* node_to_heads, whether the pass gave up (aborted) or an exception left it
ApplyChain(g, n2h, stm, item, k) ==
  LET nodes == CaseNodes(item.cases)
      original_head == nodes[1]
      original_nodes == Tail(nodes)
      new_head == NewHead(original_head, k)
      updated == update_block(g, original_head, new_head)
      st0 == [g |-> updated, n2h |-> n2h, raised |-> FALSE, aborted |-> FALSE]
      merged == RemoveRedundant(MergeIntoHead(st0, new_head, original_nodes,
                                              original_nodes),
                                item.redundant_nodes)
  IN  IF MissingTarget(g, stm, item.cases)
      THEN [g |-> g, n2h |-> n2h, raised |-> TRUE, aborted |-> FALSE]
      ELSE IF HeadSwallowed(updated, original_nodes)
      THEN [st0 EXCEPT !.aborted = TRUE]
      ELSE IF merged.raised THEN merged
      ELSE [merged EXCEPT
              !.g = ApplyDelayed(@, g, stm, item.cases, new_head, 1)]

(***************************************************************************)
(* The Rewriter: shared case Blocks (lines 235-250).                       *)
(***************************************************************************)
\* the copies of succ_node for the heads hs, numbered from next_id
RECURSIVE CopyForHeads(_, _, _, _, _)
CopyForHeads(g, succ_node, hs, node_successors, next_id) ==
  IF hs = << >> THEN g
  ELSE LET node_copy == [succ_node EXCEPT !.idx = next_id]
           with_head == AddEdge(g, Head(hs), node_copy)
           out == {<<node_copy, IF x = succ_node THEN node_copy ELSE x>> :
                      x \in node_successors}
       IN  CopyForHeads([with_head EXCEPT !.edges = @ \cup out], succ_node,
                        Tail(hs), node_successors, next_id + 1)

\* the heads of a set in the order Python iterates it: by position in the
\* graph, forwards or backwards
HeadOrder(g, heads, rev) ==
  LET fwd == InOrder(g, heads)
  IN  IF rev THEN [i \in 1 .. Len(fwd) |-> fwd[Len(fwd) + 1 - i]] ELSE fwd

\* "for succ_node, heads in node_to_heads.items()" from entry i
RECURSIVE DuplicateShared(_, _, _, _)
DuplicateShared(st, n2h, i, rev) ==
  IF i > Len(n2h) \/ st.raised THEN st
  ELSE IF Cardinality(n2h[i].heads) <= 1 THEN DuplicateShared(st, n2h, i + 1, rev)
  ELSE IF ~HasNode(st.g, n2h[i].node) THEN [st EXCEPT !.raised = TRUE]
  ELSE LET succ_node == n2h[i].node
           node_successors == Succ(st.g, succ_node)
           next_id == IF succ_node.idx = NoIdx THEN 0 ELSE succ_node.idx + 1
           g1 == CopyForHeads(RemoveNode(st.g, succ_node), succ_node,
                              HeadOrder(st.g, n2h[i].heads, rev),
                              node_successors, next_id)
       IN  DuplicateShared([st EXCEPT !.g = g1], n2h, i + 1, rev)

(***************************************************************************)
(* Input functions of the LoweredSwitchSimplifier: up to two ladders of    *)
(* equality comparisons.  Ladder A has lenA comparison Blocks on variable  *)
(* 1, ladder B none or two on variable hashB.  Comparison Block c jumps to *)
(* its own target Block or to the Block S and falls through to the next    *)
(* comparison of its ladder; the last one of a ladder falls through to a   *)
(* default Block, to S or into the other ladder.  Block X is an optional   *)
(* predecessor from outside the ladders.  Addresses grow along the edges,  *)
(* so the order by address is a quasi-topological order.                   *)
(***************************************************************************)
NodeAddr(role, i) ==
  CASE role = "X" -> 1
    [] role = "A" -> 10 + i
    [] role = "B" -> 20 + i
    [] role = "T" -> 30 + i
    [] role = "S" -> 60
    [] role = "DA" -> 61
    [] role = "DB" -> 62
    [] role = "M" -> 63
    [] role = "R" -> 4 + i

\* the comparison Blocks of an input, ladder A first
CompAddrs(lenA, lenB) ==
  [i \in 1 .. lenA + lenB |->
     IF i <= lenA THEN NodeAddr("A", i) ELSE NodeAddr("B", i - lenA)]

FallThrough(p, i) ==
  IF i # p.lenA /\ i # p.lenA + p.lenB THEN CompAddrs(p.lenA, p.lenB)[i + 1]
  ELSE IF i = p.lenA
  THEN CASE p.fA = "B1" -> NodeAddr("B", 1)
         [] p.fA = "B2" -> NodeAddr("B", 2)
         [] p.fA = "S" -> NodeAddr("S", 0)
         [] p.fA = "A1" -> NodeAddr("A", 1)
         [] OTHER -> NodeAddr("DA", 0)
  ELSE CASE p.fB = "DA" -> NodeAddr("DA", 0)
         [] p.fB = "S" -> NodeAddr("S", 0)
         [] OTHER -> NodeAddr("DB", 0)

JumpTarget(p, i) ==
  IF p.tgt[i] = "S" THEN NodeAddr("S", 0)
  ELSE NodeAddr("T", CompAddrs(p.lenA, p.lenB)[i])

InputEdges(p) ==
  LET n == p.lenA + p.lenB
      c == CompAddrs(p.lenA, p.lenB)
  IN  UNION {{<<c[i], JumpTarget(p, i)>>, <<c[i], FallThrough(p, i)>>} : i \in 1 .. n}
      \cup (CASE p.scfg = "self" -> {<<NodeAddr("S", 0), NodeAddr("S", 0)>>}
              [] p.scfg = "toDA" -> {<<NodeAddr("S", 0), NodeAddr("DA", 0)>>}
              [] OTHER -> {})
      \cup (CASE p.ext = "S" -> {<<NodeAddr("X", 0), NodeAddr("S", 0)>>}
              [] p.ext = "T" -> {<<NodeAddr("X", 0), NodeAddr("T", NodeAddr("A", 2))>>}
              [] p.ext = "C" -> {<<NodeAddr("X", 0), NodeAddr("A", 2)>>}
              [] OTHER -> {})

RECURSIVE SortedAddrs(_)
SortedAddrs(S) ==
  IF S = {} THEN << >>
  ELSE LET a == CHOOSE x \in S : \A y \in S : x <= y
       IN  <<a>> \o SortedAddrs(S \ {a})

InputStatements(p, a) ==
  LET c == CompAddrs(p.lenA, p.lenB)
      at == {i \in 1 .. Len(c) : c[i] = a}
      i == CHOOSE k \in at : TRUE
  IN  IF at = {} THEN PlainStmts
      ELSE CmpStmts(IF i = 1 \/ i = p.lenA + 1 THEN "none" ELSE p.pre, "CmpEQ",
                    IF i <= p.lenA THEN 1 ELSE p.hashB, a,
                    JumpTarget(p, i), FallThrough(p, i))

\* the function an input describes: its graph, the statements of its Blocks
\* and the quasi-topological order of the Blocks
BuildInput(p) ==
  LET e == InputEdges(p)
      addrs == {x[1] : x \in e} \cup {x[2] : x \in e} \cup {NodeAddr("DA", 0)}
      order == SortedAddrs(addrs)
      nodes == [i \in 1 .. Len(order) |-> Blk(order[i], NoIdx)]
  IN  [graph |-> [nodes |-> nodes,
                  edges |-> {<<Blk(x[1], NoIdx), Blk(x[2], NoIdx)>> : x \in e}],
       statements |-> [n \in SeqToSet(nodes) |-> InputStatements(p, n.addr)],
       sorted_nodes |-> nodes]

\* at most this many comparison Blocks in ladder A
MaxLadder == 3

InputParams(lenA, lenB) ==
  {p \in [lenA : {lenA}, lenB : {lenB},
          tgt : [1 .. lenA + lenB -> {"own", "S"}],
          hashB : IF lenB = 0 THEN {1} ELSE {1, 2},
          fA : IF lenB = 0 THEN {"DA", "S"} ELSE {"DA", "S", "B1", "B2"},
          fB : IF lenB = 0 THEN {"DB"} ELSE {"DB", "DA", "S"},
          pre : {"none", "assign", "other"},
          scfg : {"none", "self", "toDA"},
          ext : IF lenA >= 2 THEN {"none", "S", "T", "C"} ELSE {"none", "S"}] :
     /\ \A i \in 1 .. lenA + lenB : JumpTarget(p, i) # FallThrough(p, i)
     /\ lenB = 0 \/ Cardinality({f \in {"pre", "scfg", "ext"} : p[f] # "none"}) <= 1}

(***************************************************************************)
(* Input functions with a range split: the Shape-C Block R1 branches to    *)
(* the equality Blocks A1 and A2 on the same variable.  An equality Block  *)
(* jumps to its own target or to S and falls through to a default Block,   *)
(* to the address M that two Blocks share, to A2 or (fall = "R") back to   *)
(* R1.  A second Shape-C Block R2 may branch to A1 and A3, and X may be a  *)
(* predecessor of R1 or of the target of A2.                               *)
(***************************************************************************)
TreeFall(f) ==
  CASE f = "DB" -> NodeAddr("DB", 0)
    [] f = "S" -> NodeAddr("S", 0)
    [] f = "M" -> NodeAddr("M", 0)
    [] f = "A2" -> NodeAddr("A", 2)
    [] f = "R" -> NodeAddr("R", 1)
    [] OTHER -> NodeAddr("DA", 0)

TreeTarget(q, i) ==
  IF q.tgt[i] = "S" THEN NodeAddr("S", 0) ELSE NodeAddr("T", NodeAddr("A", i))

\* the second Block at address M
OtherM == Blk(NodeAddr("M", 0), 1)

UsesM(q) == q.fall[1] = "M" \/ q.fall[2] = "M"

\* edges between addresses
TreeEdges(q) ==
  {<<NodeAddr("R", 1), NodeAddr("A", 1)>>, <<NodeAddr("R", 1), NodeAddr("A", 2)>>}
  \cup UNION {{<<NodeAddr("A", i), TreeTarget(q, i)>>,
               <<NodeAddr("A", i), TreeFall(q.fall[i])>>} : i \in 1 .. 2}
  \cup (IF q.r2
        THEN {<<NodeAddr("R", 2), NodeAddr("A", 1)>>,
              <<NodeAddr("R", 2), NodeAddr("A", 3)>>,
              <<NodeAddr("A", 3), NodeAddr("T", NodeAddr("A", 3))>>,
              <<NodeAddr("A", 3), NodeAddr("DA", 0)>>}
        ELSE {})
  \cup (CASE q.ext = "R" -> {<<NodeAddr("X", 0), NodeAddr("R", 1)>>}
          [] q.ext = "T" -> {<<NodeAddr("X", 0), NodeAddr("T", NodeAddr("A", 2))>>}
          [] OTHER -> {})

TreeStatements(q, n) ==
  CASE n = Blk(NodeAddr("R", 1), NoIdx) ->
         CmpStmts("none", q.rop, 1, 50, NodeAddr("A", 1), NodeAddr("A", 2))
    [] n = Blk(NodeAddr("R", 2), NoIdx) ->
         CmpStmts("none", "CmpGT", 1, 70, NodeAddr("A", 1), NodeAddr("A", 3))
    [] n = Blk(NodeAddr("A", 3), NoIdx) ->
         CmpStmts("none", "CmpEQ", 1, n.addr, NodeAddr("T", n.addr),
                  NodeAddr("DA", 0))
    [] \E i \in 1 .. 2 : n = Blk(NodeAddr("A", i), NoIdx) ->
         LET i == CHOOSE k \in 1 .. 2 : n = Blk(NodeAddr("A", k), NoIdx)
         IN  CmpStmts("none", "CmpEQ", 1, n.addr, TreeTarget(q, i),
                      TreeFall(q.fall[i]))
    [] OTHER -> PlainStmts

BuildTree(q) ==
  LET e == TreeEdges(q)
      order == SortedAddrs({x[1] : x \in e} \cup {x[2] : x \in e}
                           \cup (IF UsesM(q) THEN {NodeAddr("X", 0)} ELSE {}))
      g == [nodes |-> [i \in 1 .. Len(order) |-> Blk(order[i], NoIdx)],
            edges |-> {<<Blk(x[1], NoIdx), Blk(x[2], NoIdx)>> : x \in e}]
      gm == IF UsesM(q) THEN AddEdge(g, Blk(NodeAddr("X", 0), NoIdx), OtherM) ELSE g
  IN  [graph |-> gm,
       statements |-> [n \in Nodes(gm) |-> TreeStatements(q, n)],
       sorted_nodes |-> gm.nodes]

\* cyclic = TRUE admits a fallthrough back to R1
TreeParams(cyclic) ==
  {q \in [rop : {"CmpGT", "CmpGE", "CmpLT", "CmpLE"},
          tgt : [1 .. 2 -> {"own", "S"}],
          fall : [1 .. 2 -> {"DA", "DB", "S", "M", "A2"}
                             \cup (IF cyclic THEN {"R"} ELSE {})],
          r2 : BOOLEAN,
          ext : {"none", "R", "T"}] :
     /\ q.fall[2] # "A2"
     /\ \A i \in 1 .. 2 : TreeTarget(q, i) # TreeFall(q.fall[i])}

\* ladders of lenA comparison Blocks whose last fallthrough goes back to the
\* first comparison Block
CycleParams(lenA) ==
  {p \in [lenA : {lenA}, lenB : {0}, tgt : [1 .. lenA -> {"own", "S"}],
          hashB : {1}, fA : {"A1"}, fB : {"DB"}, pre : {"none", "assign"},
          scfg : {"none"}, ext : {"none", "S", "C"}] :
     \A i \in 1 .. lenA : JumpTarget(p, i) # FallThrough(p, i)}

LSS_Inputs ==
  {BuildInput(p) :
     p \in UNION ({InputParams(lenA, 0) : lenA \in 0 .. MaxLadder}
                  \cup {InputParams(lenA, 2) : lenA \in 1 .. 2})}
  \cup {BuildTree(q) : q \in TreeParams(FALSE)}

(***************************************************************************)
(* restore_graph(node, last_stmt, graph, full_graph), called with the      *)
(* function graph g as both graphs.  node is the head that holds the       *)
(* placeholder last_stmt with the entries case_addrs.                      *)
(***************************************************************************)
\* ca_others[a]: the last non-default entry whose Block has address a
OtherAt(case_addrs, a) ==
  LET at == SelectSeq(case_addrs, LAMBDA ca : ~ca.default /\ ca.node.addr = a)
  IN  IF at = << >> THEN None ELSE Some(at[Len(at)])

\* first_nonlabel_statement(onode) is not onode.statements[-1]
HasLeadingStatements(stm, onode) ==
  IF onode.st = "trim" THEN TRUE ELSE stm[onode].pre # "none"

\* onode.copy(statements=[onode.statements[-1]])
LastOnly(onode) == [onode EXCEPT !.st = IF onode.st = "trim" THEN "jump" ELSE "last"]

\* the edges last_node -> onode -> target_node replace node -> target_node
Rewire(g, node, last_node, onode, target_node) ==
  RemoveEdge(AddEdge(AddEdge(g, last_node, onode), onode, target_node),
             node, target_node)

\* the while loop of lines 556-576 from the entry at next_node_addr
RECURSIVE RestoreCases(_, _, _, _, _, _)
RestoreCases(st, stm, node, case_addrs, next_node_addr, fuel) ==
  LET e == OtherAt(case_addrs, next_node_addr)
      ca == e[1]
      onode == IF HasLeadingStatements(stm, ca.node) THEN LastOnly(ca.node)
               ELSE ca.node
      \* next(iter(nn for nn in full_graph if nn.addr == target))
      targets == get_blocks(st.g, ca.target)
  IN  IF st.raised \/ fuel = 0 \/ next_node_addr = NoAddr \/ e = None THEN st
      ELSE IF targets = << >>
      THEN [st EXCEPT !.g = AddEdge(@, st.last_node, onode), !.raised = TRUE]
      ELSE RestoreCases([g |-> Rewire(st.g, node, st.last_node, onode, targets[1]),
                         last_node |-> onode, raised |-> FALSE],
                        stm, node, case_addrs, ca.next_addr, fuel - 1)

\* lines 578-588: the last restored Block gets the edge to the default target
RestoreDefault(st, node, case_addrs) ==
  LET ca_default == SelectSeq(case_addrs, LAMBDA ca : ca.default)
      targets == get_blocks(st.g, ca_default[1].target)
  IN  IF st.raised \/ ca_default = << >> THEN st
      ELSE IF targets = << >> THEN [st EXCEPT !.raised = TRUE]
      ELSE [st EXCEPT !.g = RemoveEdge(AddEdge(@, st.last_node, targets[1]),
                                       node, targets[1])]

\* remove_last_statement(node): the head without its placeholder
Stripped(node) == [node EXCEPT !.st = "stripped"]

\* the Block node of g, changed in place to new
Mutate(g, node, new) ==
  LET swap(x) == IF x = node THEN new ELSE x
  IN  [nodes |-> [i \in 1 .. Len(g.nodes) |-> swap(g.nodes[i])],
       edges |-> {<<swap(x[1]), swap(x[2])>> : x \in g.edges}]

restore_graph(g, stm, node, case_addrs) ==
  LET walked == RestoreCases([g |-> g, last_node |-> node, raised |-> FALSE],
                             stm, node, case_addrs, node.addr,
                             Len(case_addrs) + 1)
      st == RestoreDefault(walked, node, case_addrs)
  IN  IF st.raised THEN [g |-> st.g, raised |-> TRUE]
      ELSE [g |-> Mutate(st.g, node, Stripped(node)), raised |-> FALSE]

(***************************************************************************)
(* LoweredSwitchSimplifier._analyze.  The pass reads only the number of    *)
(* gotos of an Oracle answer, so an answer with k gotos is the set         *)
(* LSS_Gotos(k).                                                           *)
(***************************************************************************)
LSS_Gotos(k) == {Goto(Blk(NoAddr, NoIdx), i) : i \in 1 .. k}

\* the state of the Cross-Jump Reverter alone
cjr_only == <<last_graph, graph_updated, node_idx, max_level, rounds,
              to_update, dup_log>>

LSS_Init ==
  /\ pass_name = "LoweredSwitchSimplifier"
  /\ pc = "start"
  /\ \E inp \in LSS_Inputs :
        /\ graph = inp.graph
        /\ statements = inp.statements
        /\ sorted_nodes = inp.sorted_nodes
  /\ out_graph = None
  /\ goto_manager = None
  /\ initial_gotos = None
  \* graph_copy = networkx.DiGraph(self._graph)
  /\ graph_copy = Some(graph)
  /\ variablehash_to_cases = << >>
  /\ todo = << >>
  /\ node_to_heads = << >>
  /\ switch_heads = << >>
  /\ measured = None
  /\ oracle_failed = FALSE
  /\ last_graph = None
  /\ graph_updated = FALSE
  /\ node_idx = node_idx_start
  /\ max_level = 1
  /\ rounds = 0
  /\ to_update = << >>
  /\ dup_log = {}
  /\ full_graph = None
  /\ restore_pos = 0
  /\ restore_raised = FALSE
  /\ walk = None
  /\ head_pos = 0
  /\ jump = None
  /\ classified = None

\* lines 146-151: structuring failed, so we should exit early
InitialStructureFails ==
  /\ pass_name = "LoweredSwitchSimplifier" /\ pc = "start"
  /\ goto_manager' = None
  /\ measured' = None
  /\ oracle_failed' = TRUE
  /\ pc' = "done"
  /\ UNCHANGED <<pass_name, graph, out_graph, initial_gotos, graph_copy>>
  /\ UNCHANGED <<lss_vars, cjr_only>>
  /\ UNCHANGED aux_vars

\* lines 146-151: this function has no gotos, no need to try
InitialNoGotos ==
  /\ pass_name = "LoweredSwitchSimplifier" /\ pc = "start"
  /\ goto_manager' = Some({})
  /\ initial_gotos' = Some({})
  /\ measured' = graph_copy
  /\ pc' = "done"
  /\ UNCHANGED <<pass_name, graph, out_graph, graph_copy, oracle_failed>>
  /\ UNCHANGED <<lss_vars, cjr_only>>
  /\ UNCHANGED aux_vars

InitialGotos ==
  /\ pass_name = "LoweredSwitchSimplifier" /\ pc = "start"
  /\ \E k \in 1 .. MaxGotos :
        /\ goto_manager' = Some(LSS_Gotos(k))
        /\ initial_gotos' = Some(LSS_Gotos(k))
  /\ measured' = graph_copy
  /\ pc' = "recognize"
  /\ UNCHANGED <<pass_name, graph, out_graph, graph_copy, oracle_failed>>
  /\ UNCHANGED <<lss_vars, cjr_only>>
  /\ UNCHANGED aux_vars

\* the chains of variablehash_to_cases in the order of lines 162-163
RECURSIVE AllChains(_, _)
AllChains(v2c, k) ==
  IF k > Len(v2c) THEN << >> ELSE v2c[k].caselists \o AllChains(v2c, k + 1)

\* "if not variablehash_to_cases"
NothingRecognized(v2c) == v2c = << >>

\* lines 153-161: the Recognizer runs; unless its answer is empty the copy is
\* reset and becomes self.out_graph
Recognize ==
  /\ pass_name = "LoweredSwitchSimplifier" /\ pc = "recognize"
  /\ LET v2c == find_cascading_switch_variable_comparisons(graph, statements,
                                                           sorted_nodes)
     IN  /\ variablehash_to_cases' = v2c
         /\ IF NothingRecognized(v2c)
            THEN /\ pc' = "done"
                 /\ UNCHANGED <<out_graph, graph_copy, todo>>
            ELSE /\ pc' = "rewrite"
                 /\ graph_copy' = Some(graph)
                 /\ out_graph' = Some(graph)
                 /\ todo' = AllChains(v2c, 1)
  /\ node_to_heads' = << >>
  /\ UNCHANGED <<pass_name, graph, goto_manager, initial_gotos, measured,
                 oracle_failed, statements, sorted_nodes, switch_heads>>
  /\ UNCHANGED cjr_only
  /\ UNCHANGED aux_vars

\* lines 164-230 for the next chain; self.out_graph is the graph being edited
RewriteChain ==
  /\ pass_name = "LoweredSwitchSimplifier" /\ pc = "rewrite" /\ todo # << >>
  /\ LET k == Len(switch_heads) + 1
         item == Head(todo)
         r == ApplyChain(graph_copy[1], node_to_heads, statements, item, k)
     IN  /\ ~r.aborted
         /\ graph_copy' = Some(r.g)
         /\ out_graph' = Some(r.g)
         /\ node_to_heads' = r.n2h
         /\ switch_heads' =
               Append(switch_heads,
                      [head |-> NewHead(CaseNodes(item.cases)[1], k),
                       case_addrs |-> CaseAddrs(statements, item.cases)])
         /\ pc' = IF r.raised THEN "raised" ELSE "rewrite"
  /\ todo' = Tail(todo)
  /\ UNCHANGED <<pass_name, graph, goto_manager, initial_gotos, measured,
                 oracle_failed, statements, sorted_nodes, variablehash_to_cases>>
  /\ UNCHANGED cjr_only
  /\ UNCHANGED aux_vars

\* lines 211-213: a comparison Block of the chain has gone, the pass gives up
RewriteAborts ==
  /\ pass_name = "LoweredSwitchSimplifier" /\ pc = "rewrite" /\ todo # << >>
  /\ LET r == ApplyChain(graph_copy[1], node_to_heads, statements, Head(todo),
                         Len(switch_heads) + 1)
     IN  /\ r.aborted
         /\ graph_copy' = Some(r.g)
  /\ out_graph' = None
  /\ pc' = "done"
  /\ UNCHANGED <<pass_name, graph, goto_manager, initial_gotos, measured,
                 oracle_failed>>
  /\ UNCHANGED <<lss_vars, cjr_only>>
  /\ UNCHANGED aux_vars

\* lines 235-250: every case Block that several heads inherited is replaced
\* by one copy per head
ShareCases ==
  /\ pass_name = "LoweredSwitchSimplifier" /\ pc = "rewrite" /\ todo = << >>
  /\ \E rev \in BOOLEAN :
        LET r == DuplicateShared([g |-> graph_copy[1], raised |-> FALSE],
                                 node_to_heads, 1, rev)
        IN  /\ graph_copy' = Some(r.g)
            /\ out_graph' = Some(r.g)
            /\ pc' = IF r.raised THEN "raised" ELSE "validate"
  /\ UNCHANGED <<pass_name, graph, goto_manager, initial_gotos, measured,
                 oracle_failed>>
  /\ UNCHANGED <<lss_vars, cjr_only>>
  /\ UNCHANGED aux_vars

\* "new_gotos is None or len(new_gotos) > len(initial_gotos)"
Rejected(new_gotos, first_gotos) ==
  new_gotos = None \/ Cardinality(new_gotos[1]) > Cardinality(first_gotos[1])

\* lines 253-258: structuring failed after these edits
ValidationFails ==
  /\ pass_name = "LoweredSwitchSimplifier" /\ pc = "validate"
  /\ goto_manager' = None
  /\ measured' = None
  /\ oracle_failed' = TRUE
  /\ out_graph' = IF Rejected(None, initial_gotos) THEN None ELSE out_graph
  /\ pc' = "done"
  /\ UNCHANGED <<pass_name, graph, initial_gotos, graph_copy>>
  /\ UNCHANGED <<lss_vars, cjr_only>>
  /\ UNCHANGED aux_vars

\* lines 253-258: the Oracle counts the gotos of the edited graph
ValidationGotos ==
  /\ pass_name = "LoweredSwitchSimplifier" /\ pc = "validate"
  /\ \E k \in 0 .. MaxGotos :
        /\ goto_manager' = Some(LSS_Gotos(k))
        /\ out_graph' = IF Rejected(Some(LSS_Gotos(k)), initial_gotos) THEN None
                        ELSE out_graph
  /\ measured' = out_graph
  /\ pc' = "done"
  /\ UNCHANGED <<pass_name, graph, initial_gotos, graph_copy, oracle_failed>>
  /\ UNCHANGED <<lss_vars, cjr_only>>
  /\ UNCHANGED aux_vars

\* the consumer of an accepted graph expands the next placeholder
RestoreGraph ==
  /\ pass_name = "LoweredSwitchSimplifier" /\ pc = "done" /\ out_graph # None
  /\ restore_pos < Len(switch_heads) /\ ~restore_raised
  /\ LET g == IF full_graph = None THEN out_graph[1] ELSE full_graph[1]
         h == switch_heads[restore_pos + 1]
         r == restore_graph(g, statements, h.head, h.case_addrs)
     IN  /\ ~r.raised
         /\ full_graph' = Some(r.g)
  /\ restore_pos' = restore_pos + 1
  /\ UNCHANGED <<common_vars, cjr_vars, lss_vars, restore_raised, walk, head_pos,
                 jump, classified>>

\* restore_graph finds no Block at a case target address: next(iter(...)) of
\* line 566 or 581 raises StopIteration with the graph edited so far
RestoreRaises ==
  /\ pass_name = "LoweredSwitchSimplifier" /\ pc = "done" /\ out_graph # None
  /\ restore_pos < Len(switch_heads) /\ ~restore_raised
  /\ LET g == IF full_graph = None THEN out_graph[1] ELSE full_graph[1]
         h == switch_heads[restore_pos + 1]
         r == restore_graph(g, statements, h.head, h.case_addrs)
     IN  /\ r.raised
         /\ full_graph' = Some(r.g)
  /\ restore_raised' = TRUE
  /\ UNCHANGED <<common_vars, cjr_vars, lss_vars, restore_pos, walk, head_pos,
                 jump, classified>>

LSS_Next ==
  \/ RestoreGraph
  \/ RestoreRaises
  \/ InitialStructureFails
  \/ InitialNoGotos
  \/ InitialGotos
  \/ Recognize
  \/ RewriteChain
  \/ RewriteAborts
  \/ ShareCases
  \/ ValidationFails
  \/ ValidationGotos

SpecLSS == LSS_Init /\ [][LSS_Next]_vars

(***************************************************************************)
(* The Shape-C classifier taken alone: one conditional jump on an ordering *)
(* comparison `x op value` with its two targets, together with a value x   *)
(* of the compared variable, and the tuple the classifier returns for it.  *)
(***************************************************************************)
MaxValue == 3

OrderingOps == {"CmpGT", "CmpGE", "CmpLT", "CmpLE"}

\* no pass is running: the fields of both passes are as constructed
NoPass ==
  /\ out_graph = None /\ goto_manager = None /\ initial_gotos = None
  /\ graph_copy = None /\ last_graph = None /\ graph_updated = FALSE
  /\ node_idx = node_idx_start /\ max_level = 1 /\ rounds = 0
  /\ to_update = << >> /\ measured = None /\ oracle_failed = FALSE
  /\ dup_log = {}
  /\ variablehash_to_cases = << >> /\ todo = << >> /\ node_to_heads = << >>
  /\ switch_heads = << >>
  /\ full_graph = None /\ restore_pos = 0 /\ restore_raised = FALSE

TypeC_Init ==
  /\ pass_name = "find_switch_variable_comparison_type_c"
  /\ NoPass
  /\ pc = "start"
  /\ graph = [nodes |-> << >>, edges |-> {}]
  /\ statements = << >> /\ sorted_nodes = << >>
  /\ walk = None /\ head_pos = 0
  /\ jump \in {Some(j) : j \in [op : OrderingOps, value : 0 .. MaxValue,
                                true_target : 1 .. 2, false_target : 1 .. 2,
                                x : -2 .. MaxValue + 2]}
  /\ classified = None

\* the Block whose only statement is the jump
JumpBlock(j) == CmpStmts("none", j.op, 1, j.value, j.true_target, j.false_target)

ClassifyJump ==
  /\ pass_name = "find_switch_variable_comparison_type_c"
  /\ classified = None
  /\ classified' = Some(find_switch_variable_comparison_type_c(JumpBlock(jump[1])))
  /\ UNCHANGED <<common_vars, cjr_vars, lss_vars, full_graph, restore_pos,
                 restore_raised, walk, head_pos, jump>>

TypeC_Next == ClassifyJump

SpecTypeC == TypeC_Init /\ [][TypeC_Next]_vars

(***************************************************************************)
(* The Recognizer taken step by step: "for head in variable_comparisons"   *)
(* (line 280) with one action per iteration of "while stack" (line 289).   *)
(* The inputs include the functions whose fallthrough edges close a cycle. *)
(***************************************************************************)
\* a walk is followed until its Case list has this many Cases
MaxCases == 6

Rec_Inputs ==
  LSS_Inputs
  \cup {BuildTree(q) : q \in TreeParams(TRUE)}
  \cup {BuildInput(p) : p \in UNION {CycleParams(lenA) : lenA \in 2 .. MaxLadder}}

Rec_Init ==
  /\ pass_name = "Recognizer"
  /\ NoPass
  /\ pc = "heads"
  /\ \E inp \in Rec_Inputs :
        /\ graph = inp.graph
        /\ statements = inp.statements
        /\ sorted_nodes = inp.sorted_nodes
  /\ walk = None /\ head_pos = 0
  /\ jump = None /\ classified = None

\* used_nodes
Used == IF walk = None THEN {} ELSE walk[1].used_nodes

\* line 281: the next head is no comparison Block or is in used_nodes
SkipHead ==
  /\ pass_name = "Recognizer" /\ pc = "heads" /\ head_pos < Len(sorted_nodes)
  /\ \/ ~Classified(statements, sorted_nodes[head_pos + 1])
     \/ sorted_nodes[head_pos + 1] \in Used
  /\ head_pos' = head_pos + 1
  /\ UNCHANGED <<common_vars, cjr_vars, lss_vars, full_graph, restore_pos,
                 restore_raised, walk, jump, classified>>

\* lines 284-288: the worklist of the next head
StartWalk ==
  /\ pass_name = "Recognizer" /\ pc = "heads" /\ head_pos < Len(sorted_nodes)
  /\ Classified(statements, sorted_nodes[head_pos + 1])
  /\ sorted_nodes[head_pos + 1] \notin Used
  /\ walk' = Some(WalkInit(sorted_nodes[head_pos + 1], Used))
  /\ head_pos' = head_pos + 1
  /\ pc' = "walk"
  /\ UNCHANGED <<pass_name, graph, out_graph, goto_manager, initial_gotos,
                 measured, oracle_failed>>
  /\ UNCHANGED <<cjr_vars, lss_vars, full_graph, restore_pos, restore_raised,
                 jump, classified>>

\* one iteration of "while stack"
WalkIteration ==
  /\ pass_name = "Recognizer" /\ pc = "walk"
  /\ walk[1].running /\ walk[1].stack # << >>
  /\ Len(walk[1].cases) < MaxCases
  /\ walk' = Some(WalkStep(graph, statements, sorted_nodes[head_pos], walk[1]))
  /\ UNCHANGED <<common_vars, cjr_vars, lss_vars, full_graph, restore_pos,
                 restore_raised, head_pos, jump, classified>>

\* the loop has ended by break or on an empty stack: lines 370-382
EndWalk ==
  /\ pass_name = "Recognizer" /\ pc = "walk"
  /\ ~walk[1].running \/ walk[1].stack = << >>
  /\ variablehash_to_cases' = StoreChain(graph, variablehash_to_cases, walk[1])
  /\ pc' = "heads"
  /\ UNCHANGED <<pass_name, graph, out_graph, goto_manager, initial_gotos,
                 measured, oracle_failed>>
  /\ UNCHANGED <<cjr_vars, statements, sorted_nodes, todo, node_to_heads,
                 switch_heads>>
  /\ UNCHANGED aux_vars

\* lines 384-421: the filters, and the return
ReturnChains ==
  /\ pass_name = "Recognizer" /\ pc = "heads" /\ head_pos = Len(sorted_nodes)
  /\ variablehash_to_cases' = FilterChains(graph, statements, variablehash_to_cases)
  /\ pc' = "returned"
  /\ UNCHANGED <<pass_name, graph, out_graph, goto_manager, initial_gotos,
                 measured, oracle_failed>>
  /\ UNCHANGED <<cjr_vars, statements, sorted_nodes, todo, node_to_heads,
                 switch_heads>>
  /\ UNCHANGED aux_vars

Rec_Next ==
  \/ SkipHead
  \/ StartWalk
  \/ WalkIteration
  \/ EndWalk
  \/ ReturnChains

SpecRec == Rec_Init /\ [][Rec_Next]_vars

(***************************************************************************)
(* Claims about the Cross-Jump Reverter.                                   *)
(***************************************************************************)
IsCJR == pass_name = "CrossJumpReverter"

\* the graph the caller sees once the pass has ended
Result == IF out_graph # None THEN out_graph[1] ELSE graph

LastCount == Cardinality(goto_manager[1])

FirstCount == Cardinality(initial_gotos[1])

C2_EmittedGraphWasMeasured ==
  (IsCJR /\ out_graph # None) =>
      (measured = out_graph /\ goto_manager # None /\ LastCount <= FirstCount)

\* C5: after a failed Oracle call the pass is past its loop, and its result is
\* the snapshot taken before the latest duplication round when an earlier
\* call succeeded, and the unchanged graph when the first call failed.
C5_FailureKeepsBestGraph ==
  (IsCJR /\ oracle_failed) =>
      /\ pc \in {"emit", "done"}
      /\ pc = "done" =>
            Result = (IF initial_gotos # None THEN last_graph[1] ELSE graph)

\* the graph and the gotos a finished (or raised) round started from
RoundGraph == last_graph[1]

RoundGotos == goto_manager[1]

RoundPairs == SeqToSet(Collect(RoundGraph, RoundGotos))

\* B has exactly one successor and k >= 1 predecessors, each with exactly one
\* attributed goto, which targets B's address
C6_Pre(B) ==
  /\ B \in Nodes(RoundGraph)
  /\ OutDegree(RoundGraph, B) = 1
  /\ Pred(RoundGraph, B) # {}
  /\ \A p \in Pred(RoundGraph, B) :
        /\ Cardinality(gotos_in_block(RoundGotos, p)) = 1
        /\ \A x \in gotos_in_block(RoundGotos, p) : x.target_addr = B.addr

\* the duplicates of B that are successors of p after the round
C6_Dups(B, p) ==
  {d \in Succ(graph_copy[1], p) :
      d.addr = B.addr /\ d.idx # B.idx /\ d \notin Nodes(RoundGraph)}

\* k pairwise distinct duplicates, one per predecessor, each the predecessor's
\* successor in place of B and each with C as its only successor; B removed
C6_Post(B) ==
  LET C == CHOOSE c \in Succ(RoundGraph, B) : TRUE
      g1 == graph_copy[1]
  IN  /\ B \notin Nodes(g1)
      /\ \A p \in Pred(RoundGraph, B) :
            /\ Cardinality(C6_Dups(B, p)) = 1
            /\ Succ(g1, p) = (Succ(RoundGraph, p) \ {B}) \cup C6_Dups(B, p)
            /\ \A d \in C6_Dups(B, p) : Succ(g1, d) = {C} /\ Pred(g1, d) = {p}
      /\ \A p, q \in Pred(RoundGraph, B) :
            p # q => C6_Dups(B, p) \cap C6_Dups(B, q) = {}

\* no goto-bearing block selected in the round is the goto target of a pair
\* selected in the round
C6_NoSelectedTarget == \A x, y \in RoundPairs : x[1] # y[2]

\* C6 as stated: for every such B a duplication round produces the k
\* duplicates and removes B.
C6_AnyRound ==
  (IsCJR /\ pc = "core_done") =>
      \A B \in Nodes(RoundGraph) : C6_Pre(B) => C6_Post(B)

\* C6 as amended: the same, for rounds in which no selected goto-bearing block
\* is itself the goto target of a selected pair; such a round never raises.
C6_IsolatedTargets ==
  /\ (IsCJR /\ pc = "core_done" /\ C6_NoSelectedTarget) =>
        \A B \in Nodes(RoundGraph) : C6_Pre(B) => C6_Post(B)
  /\ (IsCJR /\ pc = "raised") => ~C6_NoSelectedTarget

\* a finished round that drained a Block with two predecessors
C6_Witness ==
  /\ IsCJR /\ pc = "core_done" /\ C6_NoSelectedTarget
  /\ \E B \in Nodes(RoundGraph) :
        C6_Pre(B) /\ Cardinality(Pred(RoundGraph, B)) >= 2 /\ C6_Post(B)

\* C7: every duplicate has exactly the outgoing edges its original had when
\* its duplication started.
C7_DuplicateKeepsSuccessors ==
  IsCJR => \A r \in dup_log : r.after = r.before

(***************************************************************************)
(* Claims about the Switch-Ladder Recognizer and Rewriter.                 *)
(***************************************************************************)
IsLSS == pass_name = "LoweredSwitchSimplifier"

\* the chains the Recognizer returned
Chains == AllChains(variablehash_to_cases, 1)

\* the Recognizer has run and the Rewriter was entered
Rewriting == IsLSS /\ pc \in {"rewrite", "validate", "raised"}

\* the pass has come to its end after applying every chain
Rewritten == IsLSS /\ pc \in {"validate", "done"} /\ measured # None
                   /\ initial_gotos # None /\ initial_gotos[1] # {}
                   /\ variablehash_to_cases # << >> /\ todo = << >>

\* C3: the Rewriter ends with a replacement graph exactly when a chain was
\* recognized, every recognized chain was applied without the unsafe-merge
\* abort and the final Oracle call on the rewritten graph succeeded with no
\* more gotos than the original graph had; in every other outcome it ends
\* with no replacement graph.
C3_ReplacementOnlyAfterFullRewrite ==
  (IsLSS /\ pc = "done") =>
     (out_graph # None <=>
        /\ Chains # << >>
        /\ todo = << >>
        /\ Len(switch_heads) = Len(Chains)
        /\ goto_manager # None /\ initial_gotos # None
        /\ LastCount <= FirstCount
        /\ measured = out_graph)

\* C4: in every state of a pass the output graph is unset or is a graph that
\* the pass has finished editing and that has passed the Oracle validation.
C4_OutputAssignedOnceAfterValidation ==
  out_graph # None =>
     /\ pc = "done"
     /\ measured = out_graph
     /\ goto_manager # None /\ initial_gotos # None
     /\ LastCount <= FirstCount

\* C8: predecessor containment: for every Case of a chain the Recognizer
\* returned, every predecessor of the Case's target Block is a Block of the
\* same chain.
C8_PredecessorContainment ==
  (IsLSS /\ pc # "start" /\ pc # "recognize") =>
     \A c \in 1 .. Len(Chains) :
        LET cases == Chains[c].cases
            all_case_nodes == {cases[i].original_node : i \in 1 .. Len(cases)}
        IN  \A i \in 1 .. Len(cases) :
               \A t \in {x \in Succ(graph, cases[i].original_node) :
                            x.addr = cases[i].target} :
                  Pred(graph, t) \subseteq all_case_nodes

\* a placeholder head of the rewritten graph
IsHead(n) == n.st = "switch"

DispatchHeads(g, n) == {h \in Pred(g, n) : IsHead(h)}

\* C10: after all chains were applied and the shared-successor duplication
\* has run, no Block of the rewritten graph has more than one dispatch head
\* as a direct predecessor.
C10_NoBlockUnderTwoHeads ==
  Rewritten =>
     \A n \in Nodes(graph_copy[1]) :
        Cardinality(DispatchHeads(graph_copy[1], n)) <= 1

\* the comparison Blocks of the input function, in the node order
Comparisons == SelectSeq(sorted_nodes, LAMBDA n : Classified(statements, n))

Cmp(n) == Classify(statements[n])[1].r

\* the Blocks of the input at an address
BlocksAt(a) == {n \in Nodes(graph) : n.addr = a}

\* the addresses of T1 .. Tn and D of the ladder the Comparisons form
LadderTargets ==
  [i \in 1 .. Len(Comparisons) + 1 |->
     IF i <= Len(Comparisons) THEN Cmp(Comparisons[i]).target
     ELSE Cmp(Comparisons[Len(Comparisons)]).next_addr]

\* the input function is one equality ladder: its n >= 2 comparison Blocks
\* test one expression, each falls through to the next and the last to D;
\* T1 .. Tn and D are pairwise distinct Blocks that are no comparisons and
\* have no other predecessor than their comparison Block
IsLadder ==
  LET c == Comparisons
      n == Len(c)
  IN  /\ n >= 2
      /\ \A a \in {x.addr : x \in Nodes(graph)} : Cardinality(BlocksAt(a)) = 1
      /\ \A i \in 1 .. n :
            /\ Cmp(c[i]).op = "eq"
            /\ Cmp(c[i]).variable_hash = Cmp(c[1]).variable_hash
            /\ i < n => Cmp(c[i]).next_addr = c[i + 1].addr
            /\ {x.addr : x \in Succ(graph, c[i])} =
                  {Cmp(c[i]).target, Cmp(c[i]).next_addr}
      /\ \A i, j \in 1 .. n + 1 : i # j => LadderTargets[i] # LadderTargets[j]
      /\ \A i \in 1 .. n + 1 :
            \A t \in BlocksAt(LadderTargets[i]) :
               /\ ~Classified(statements, t)
               /\ Pred(graph, t) = {c[IF i <= n THEN i ELSE n]}

\* every comparison Block after the first holds nothing but its comparison
\* and is entered only from the comparison Block before it
IsPlainLadder ==
  /\ IsLadder
  /\ \A i \in 2 .. Len(Comparisons) :
        /\ statements[Comparisons[i]].pre = "none"
        /\ Pred(graph, Comparisons[i]) = {Comparisons[i - 1]}

\* the Recognizer returned exactly one chain: the n Cases in ladder order,
\* then the default Case
OneChainInLadderOrder ==
  LET c == Comparisons
      n == Len(c)
  IN  /\ Len(variablehash_to_cases) = 1
      /\ Len(Chains) = 1
      /\ Len(Chains[1].cases) = n + 1
      /\ \A i \in 1 .. n :
            Chains[1].cases[i] =
               Case(c[i], Classify(statements[c[i]])[1].comp_type,
                    Cmp(c[i]).variable_hash, Cmp(c[i]).value, Cmp(c[i]).target,
                    Cmp(c[i]).next_addr)
      /\ Chains[1].cases[n + 1] =
            DefaultCase(c[n], Cmp(c[n]).variable_hash, Cmp(c[n]).next_addr)

\* the rewritten graph has a single head, in the place of the first
\* comparison Block; its placeholder lists the n + 1 entries in ladder
\* order, the other comparison Blocks are gone and the head has an edge to
\* each of T1 .. Tn and D
CollapsedToOneHead ==
  LET c == Comparisons
      n == Len(c)
      g == graph_copy[1]
      head == NewHead(c[1], 1)
  IN  /\ {x \in Nodes(g) : IsHead(x)} = {head}
      /\ Len(switch_heads) = 1
      /\ switch_heads[1].head = head
      /\ Len(switch_heads[1].case_addrs) = n + 1
      /\ \A i \in 1 .. n + 1 :
            /\ switch_heads[1].case_addrs[i].target = LadderTargets[i]
            /\ switch_heads[1].case_addrs[i].default = (i = n + 1)
            /\ i <= n => switch_heads[1].case_addrs[i].value = Cmp(c[i]).value
      /\ \A i \in 1 .. n : ~HasNode(g, c[i])
      /\ Succ(g, head) = UNION {BlocksAt(LadderTargets[i]) : i \in 1 .. n + 1}
      /\ Nodes(g) = (Nodes(graph) \ SeqToSet(c)) \cup {head}

RECURSIVE Closure(_, _)
Closure(g, S) ==
  LET next == S \cup UNION {Succ(g, x) : x \in S}
  IN  IF next = S THEN S ELSE Closure(g, next)

Reach(g, n) == Closure(g, Succ(g, n))

\* the case target addresses of chain k, the default target included, that a
\* Block reachable from n in g has
ReachedTargets(g, n, k) ==
  {a \in {Chains[k].cases[i].target : i \in 1 .. Len(Chains[k].cases)} :
      \E x \in Reach(g, n) : x.addr = a}

\* the head of chain k after restore_graph
RestoredHead(k) == Stripped(switch_heads[k].head)

SameTargetsReached(k) ==
  ReachedTargets(full_graph[1], RestoredHead(k), k) =
     ReachedTargets(graph, CaseNodes(Chains[k].cases)[1], k)

NoDirectCaseEdge(k) ==
  \A i \in 1 .. Len(Chains[k].cases) :
     \A t \in Succ(full_graph[1], RestoredHead(k)) :
        t.addr # Chains[k].cases[i].target

PlaceholderGone(k) ==
  /\ ~HasNode(full_graph[1], switch_heads[k].head)
  /\ HasNode(full_graph[1], RestoredHead(k))

\* C11: after a chain was collapsed and its placeholder expanded by
\* restore_graph, the head reaches the same case target addresses (default
\* included) as the first comparison Block did before the collapse, no case
\* target is a direct successor of the head, and the placeholder is gone.
C11_RoundTrip ==
  (IsLSS /\ restore_pos >= 1) =>
     \A k \in 1 .. restore_pos :
        SameTargetsReached(k) /\ NoDirectCaseEdge(k) /\ PlaceholderGone(k)

\* the positions of the default Cases of a Case list
DefaultPositions(cases) == {i \in 1 .. Len(cases) : cases[i].default}

\* C13: every chain the Recognizer returned has at least two non-default
\* Cases and at most one default Case, and a default Case is the last Case.
C13_ChainShape ==
  IsLSS =>
     \A k \in 1 .. Len(Chains) :
        LET cases == Chains[k].cases
        IN  /\ Len(cases) - Cardinality(DefaultPositions(cases)) >= 2
            /\ Cardinality(DefaultPositions(cases)) <= 1
            /\ DefaultPositions(cases) \subseteq {Len(cases)}

\* C14: in every chain the Recognizer returned, every comparison Block that
\* is a Case, other than the Block the traversal started from, has exactly
\* one incoming edge in the input graph: a Block entered from a second place
\* is no Case of the chain.
C14_SingleEntryCases ==
  IsLSS =>
     \A k \in 1 .. Len(Chains) :
        \A i \in 1 .. Len(Chains[k].cases) :
           LET case == Chains[k].cases[i]
           IN  (~case.default /\ case.original_node # Chains[k].cases[1].original_node)
                  => InDegree(graph, case.original_node) = 1

\* the Blocks of chain k: its comparison Blocks and its redundant
\* range-comparison nodes
ChainBlocks(k) ==
  SeqToSet(CaseNodes(Chains[k].cases)) \cup SeqToSet(Chains[k].redundant_nodes)

\* the Blocks the collapse of chain k removes: all of them but the head
RemovedBlocks(k) == ChainBlocks(k) \ {CaseNodes(Chains[k].cases)[1]}

\* C18: after a chain was collapsed, every Block outside the chain that had
\* an edge into a removed non-head case Block or a removed redundant
\* range-comparison node has an edge to the chain's dispatch head.
C18_EntryEdgesPreserved ==
  (IsLSS /\ out_graph # None) =>
     \A k \in 1 .. Len(switch_heads) :
        \A x \in Nodes(graph) \ ChainBlocks(k) :
           (/\ HasNode(out_graph[1], x)
            /\ \E r \in RemovedBlocks(k) : <<x, r>> \in graph.edges)
              => <<x, switch_heads[k].head>> \in out_graph[1].edges

\* C17: a duplication round of the Cross-Jump Reverter never fails on a
\* missing node, edge or successor: every pair (n, g) of the round is applied
\* to Blocks and edges that are still in the graph, also when a goto target
\* that was drained and removed earlier in the round is itself a selected
\* goto-bearing Block.
C17_RoundNeverRaises == IsCJR => pc # "raised"

\* the condition `x op value` of a conditional jump
ConditionHolds(j) ==
  CASE j.op = "CmpGT" -> j.x > j.value
    [] j.op = "CmpGE" -> j.x >= j.value
    [] j.op = "CmpLT" -> j.x < j.value
    [] j.op = "CmpLE" -> j.x <= j.value

\* the address the jump goes to when the variable holds j.x
JumpDestination(j) == IF ConditionHolds(j) THEN j.true_target ELSE j.false_target

\* C15: for each ordering operator, constant and pair of distinct targets,
\* the Shape-C classifier returns a tuple ("gt", value', gt_target,
\* le_target) such that for every value x of the variable the original jump
\* goes to gt_target exactly when x > value', and to le_target otherwise.
C15_TypeCPreservesJump ==
  (classified # None /\ jump[1].true_target # jump[1].false_target) =>
     /\ classified[1] # None
     /\ LET r == classified[1][1]
        IN  /\ r.op = "gt"
            /\ (JumpDestination(jump[1]) = r.target) <=> (jump[1].x > r.value)
            /\ (JumpDestination(jump[1]) = r.next_addr) <=> ~(jump[1].x > r.value)

IsRec == pass_name = "Recognizer"

\* C16: chain assembly terminates on every finite graph, because during the
\* walk from one head each Block is appended as a Case at most once, also
\* when the fallthrough edges of the comparison Blocks form a cycle.
C16_EachBlockOnceAsCase ==
  (IsRec /\ walk # None) =>
     LET cases == walk[1].cases
     IN  \A i, j \in 1 .. Len(cases) :
            (i # j /\ ~cases[i].default /\ ~cases[j].default)
               => cases[i].original_node # cases[j].original_node

\* no Case list stored under one hash is a subset of another one
NoChainSubset(v2c) ==
  \A k \in 1 .. Len(v2c) :
     \A i, j \in 1 .. Len(v2c[k].caselists) :
        i # j => ~cases_issubset(v2c[k].caselists[i].cases,
                                 v2c[k].caselists[j].cases)

\* lines 370-372: the walk that has ended yields a chain
Storeable(w) == w.cases # << >> /\ Len(w.default_case_candidates) <= 1

\* the chain of the walk w with its default Case
NewChain(w) ==
  IF w.default_case_candidates = << >> THEN w.cases
  ELSE Append(w.cases, w.default_case_candidates[1])

\* varhash_to_caselists[v]
ListsOf(v2c, v) ==
  IF KeyIndex(v2c, v) = 0 THEN << >> ELSE v2c[KeyIndex(v2c, v)].caselists

\* the walk of the head at head_pos has ended and its chain went through
\* lines 373-382
ChainStored == IsRec /\ pc = "heads" /\ walk # None /\ Storeable(walk[1])

=============================================================================
